---- MODULE Spec2Model ----
(***************************************************************************)
(* compatible-with: the Compatible<Old, Current> adapter over serde.       *)
(*                                                                         *)
(* An input is a JSON tree (what serde buffers for an untagged enum); a    *)
(* Rust value is a record [ty, v] naming its type and carrying its payload.*)
(* The adapter types checked are the instantiations the tests of the crate *)
(* build, plus the pair (Dir, DirNode), whose conversion test_complex      *)
(* defines, and one three-version chain.                                   *)
(***************************************************************************)
EXTENDS Integers, Sequences, FiniteSets, TLC

\* ty      the adapter type Compatible<Old, Current> in use (or the type decoded)
\* src     the value whose encoding is the input, NoVal when none is
\* input   the input handed to deserialize
\* pc      "start", "held" (an adapter is held), "failed", "unwrapped",
\*         "value" (a plain value was decoded), "aborted" (stack overflow)
\* dec     what deserialize returned
\* adapter the adapter held
\* convs   conversions Old -> Current invoked on the adapter's path
\* lastop  the operation last applied
\* cur     what into_current returned
\* hook    what deserialize_with returned on the same input
\* wire    what serialize last emitted
\* top     what serde_json::from_str returned on the same input
VARIABLES ty, src, input, pc, dec, adapter, convs, lastop, cur, hook, wire, top

vars == <<ty, src, input, pc, dec, adapter, convs, lastop, cur, hook, wire, top>>

(* ------------------------------ bounds --------------------------------- *)

\* Frames the decoding thread's stack holds before the process aborts.
StackLimit == 6
\* Longest Vec<Dir> / DirNode.children drawn as an input.
MaxChildren == 2
\* Cap of the conversion counter.
MaxConvs == 4

(* --------------------------- JSON trees -------------------------------- *)

JInt(n) == [j |-> "int", v |-> n]
JStr(s) == [j |-> "str", v |-> s]
JObj(f) == [j |-> "obj", v |-> f]
JArr(s) == [j |-> "arr", v |-> s]
JNull == [j |-> "null", v |-> 0]
\* Text whose first value is malformed ("@", "", "{", "[1,"): buffering the
\* input fails before any variant is tried.
JBad == [j |-> "bad", v |-> 0]
\* Text that is a well-formed value x followed by garbage ("1 x"): a
\* Deserialize impl reads x and leaves the rest; serde_json::from_str looks
\* at the rest only after the value was built.
JTrail(x) == [j |-> "trail", v |-> x]
\* The first value of the input, which is all a Deserialize impl reads.
First(j) == IF j.j = "trail" THEN j.v ELSE j
NoJ == [j |-> "none", v |-> 0]

(* --------------------------- Rust values ------------------------------- *)

V(t, p) == [ty |-> t, v |-> p]
NoVal == V("none", 0)
I32V(n) == V("i32", n)
OldV(a) == V("Old", [a |-> a])
NewV(a, b) == V("New", [a |-> a, b |-> b])
MyTypeV(s) == V("MyType", s)
DerivedMyTypeV(s) == V("derive::MyType", s)
DirV(id, name, path) == V("Dir", [id |-> id, name |-> name, path |-> path])
DirNodeV(id, name, path, children) ==
    V("DirNode", [id |-> id, name |-> name, path |-> path, children |-> children])
VecDirV(s) == V("Vec<Dir>", s)
ErrorV(msg) == V("serde::de::Error", msg)

\* Compatible(Alt::Old(x)) and Compatible(Alt::Current(x)) of adapter type t.
HoldOld(t, x) == V(t, [alt |-> "Old", val |-> x])
HoldCurrent(t, x) == V(t, [alt |-> "Current", val |-> x])

(* ------------------------- adapter types ------------------------------- *)

SimpleT == "Compatible<Old,New>"
FieldT == "Compatible<i32,MyType>"
DirT == "Compatible<Dir,DirNode>"
TreeT == "Compatible<Vec<Dir>,DirNode>"
ChainT == "Compatible<Compatible<i32,MyType>,New>"
DerivedT == "Compatible<i32,derive::MyType>"

AdapterTypes == {SimpleT, FieldT, DirT, TreeT, ChainT}

IsCompatible(t) == t \in AdapterTypes \cup {DerivedT}

OldOf(t) ==
    CASE t = SimpleT -> "Old"
      [] t = FieldT -> "i32"
      [] t = DirT -> "Dir"
      [] t = TreeT -> "Vec<Dir>"
      [] t = ChainT -> FieldT
      [] t = DerivedT -> "i32"

CurOf(t) ==
    CASE t = SimpleT -> "New"
      [] t = FieldT -> "MyType"
      [] t = DirT -> "DirNode"
      [] t = TreeT -> "DirNode"
      [] t = ChainT -> "New"
      [] t = DerivedT -> "derive::MyType"

\* Old: Serialize and Current: Serialize, the bound of the Serialize impl.
\* MyType derives Deserialize only.
CanSerialize(t) == t \in {SimpleT, DirT, TreeT}

(* --------------------------- to_string --------------------------------- *)

Digit(d) == <<"0", "1", "2", "3", "4", "5", "6", "7", "8", "9">>[d + 1]

RECURSIVE NatToString(_)
NatToString(n) ==
    IF n < 10 THEN Digit(n) ELSE NatToString(n \div 10) \o Digit(n % 10)

to_string(n) == IF n < 0 THEN "-" \o NatToString(-n) ELSE NatToString(n)

(* ------------------- derived Deserialize, plain types ------------------ *)

POk(v) == [ok |-> TRUE, val |-> v]
PErr == [ok |-> FALSE, val |-> NoVal]

\* A derived struct is read from a map by field name, unknown keys ignored
\* and every field required, or from a sequence of exactly its fields.
StructFields(j, names) ==
    IF j.j = "obj"
    THEN IF \A i \in 1..Len(names) : names[i] \in DOMAIN j.v
         THEN [ok |-> TRUE, fs |-> [i \in 1..Len(names) |-> j.v[names[i]]]]
         ELSE [ok |-> FALSE, fs |-> <<>>]
    ELSE IF j.j = "arr" /\ Len(j.v) = Len(names)
         THEN [ok |-> TRUE, fs |-> j.v]
         ELSE [ok |-> FALSE, fs |-> <<>>]

RECURSIVE de_plain(_, _)
de_plain(t, j) ==
    CASE t = "i32" -> IF j.j = "int" THEN POk(I32V(j.v)) ELSE PErr
      [] t = "Old" ->
            LET f == StructFields(j, <<"a">>) IN
            IF f.ok /\ f.fs[1].j = "int" THEN POk(OldV(f.fs[1].v)) ELSE PErr
      [] t = "New" ->
            LET f == StructFields(j, <<"a", "b">>) IN
            IF f.ok /\ f.fs[1].j = "str" /\ f.fs[2].j = "int"
            THEN POk(NewV(f.fs[1].v, f.fs[2].v)) ELSE PErr
      [] t = "MyType" -> IF j.j = "str" THEN POk(MyTypeV(j.v)) ELSE PErr
      [] t = "Dir" ->
            LET f == StructFields(j, <<"id", "name", "path">>) IN
            IF f.ok /\ f.fs[1].j = "int" /\ f.fs[2].j = "str" /\ f.fs[3].j = "str"
            THEN POk(DirV(f.fs[1].v, f.fs[2].v, f.fs[3].v)) ELSE PErr
      [] t = "DirNode" ->
            LET f == StructFields(j, <<"id", "name", "path", "children">>) IN
            IF f.ok /\ f.fs[1].j = "int" /\ f.fs[2].j = "str" /\ f.fs[3].j = "str"
                    /\ f.fs[4].j = "arr"
            THEN LET cs == [i \in 1..Len(f.fs[4].v) |-> de_plain("DirNode", f.fs[4].v[i])] IN
                 IF \A i \in 1..Len(cs) : cs[i].ok
                 THEN POk(DirNodeV(f.fs[1].v, f.fs[2].v, f.fs[3].v,
                                   [i \in 1..Len(cs) |-> cs[i].val]))
                 ELSE PErr
            ELSE PErr
      [] t = "Vec<Dir>" ->
            IF j.j = "arr"
            THEN LET ds == [i \in 1..Len(j.v) |-> de_plain("Dir", j.v[i])] IN
                 IF \A i \in 1..Len(ds) : ds[i].ok
                 THEN POk(VecDirV([i \in 1..Len(ds) |-> ds[i].val]))
                 ELSE PErr
            ELSE PErr

(* ----------------------- conversions (From impls) ---------------------- *)

\* impl From<Old> for New (test_simple)
From_Old_for_New(old) == NewV(to_string(old.v.a), 0)

\* impl From<i32> for MyType (test_with, tests/derive.rs)
From_i32_for_MyType(value) == MyTypeV(to_string(value.v))

From_i32_for_DerivedMyType(value) == DerivedMyTypeV(to_string(value.v))

\* impl From<Dir> for DirNode (test_complex)
From_Dir_for_DirNode(old) == DirNodeV(old.v.id, old.v.name, old.v.path, <<>>)

\* impl From<Vec<Dir>> for DirNode (test_complex)
From_VecDir_for_DirNode(old) ==
    DirNodeV(0, "root", "/", [i \in 1..Len(old.v) |-> From_Dir_for_DirNode(old.v[i])])

RECURSIVE From_from(_, _)

\* CompatibleWith::from_old, the blanket impl: value.into()
from_old(value, current) == From_from(value, current)

\* Mutant: the old value is passed through unconverted.
Old_into_current_identity(old, current) == old

\* CompatibleTo::into_current, the blanket impl: Current::from_old(self)
Old_into_current(old, current) == from_old(old, current)

\* Compatible::into_current
into_current(c) ==
    IF c.v.alt = "Old" THEN Old_into_current(c.v.val, CurOf(c.ty)) ELSE c.v.val

\* The chain's outer conversion, impl From<Compatible<i32, MyType>> for New:
\* the second version's string becomes field a, b takes its default.
From_Compatible_for_New(value) == NewV(into_current(value).v, 0)

\* The derive's output: impl From<Compatible<Old, T>> for T
Derived_from(value) == into_current(value)

\* Current::from(old), by the pair of types; T: From<T> is the identity.
From_from(old, current) ==
    CASE old.ty = current -> old
      [] old.ty = "Old" /\ current = "New" -> From_Old_for_New(old)
      [] old.ty = "i32" /\ current = "MyType" -> From_i32_for_MyType(old)
      [] old.ty = "i32" /\ current = "derive::MyType" -> From_i32_for_DerivedMyType(old)
      [] old.ty = "Dir" /\ current = "DirNode" -> From_Dir_for_DirNode(old)
      [] old.ty = "Vec<Dir>" /\ current = "DirNode" -> From_VecDir_for_DirNode(old)
      [] old.ty = FieldT /\ current = "New" -> From_Compatible_for_New(old)
      [] old.ty = DerivedT /\ current = "derive::MyType" -> Derived_from(old)

(* ----------------------------- Serialize -------------------------------- *)

RECURSIVE serialize(_)

\* Mutant: the enum's default (externally tagged) encoding, the variant's
\* name wrapping the value.
Compatible_serialize_tagged(c) ==
    IF c.v.alt = "Old" THEN JObj([Old |-> serialize(c.v.val)])
    ELSE JObj([Current |-> serialize(c.v.val)])

\* impl Serialize for Compatible: the held case's own encoding.
Compatible_serialize(c) ==
    IF c.v.alt = "Old" THEN serialize(c.v.val) ELSE serialize(c.v.val)

\* The derived Serialize of the plain types.
serialize(x) ==
    CASE x.ty = "i32" -> JInt(x.v)
      [] x.ty = "Old" -> JObj([a |-> JInt(x.v.a)])
      [] x.ty = "New" -> JObj([a |-> JStr(x.v.a), b |-> JInt(x.v.b)])
      [] x.ty = "Dir" ->
            JObj([id |-> JInt(x.v.id), name |-> JStr(x.v.name), path |-> JStr(x.v.path)])
      [] x.ty = "DirNode" ->
            JObj([id |-> JInt(x.v.id), name |-> JStr(x.v.name), path |-> JStr(x.v.path),
                  children |-> JArr([i \in 1..Len(x.v.children) |->
                                        serialize(x.v.children[i])])])
      [] x.ty = "Vec<Dir>" -> JArr([i \in 1..Len(x.v) |-> serialize(x.v[i])])
      [] IsCompatible(x.ty) -> Compatible_serialize(x)

(* ---------------------------- Deserialize ------------------------------ *)

\* The outcome of a decode: st is "ok", "err" or "overflow" (the stack ran
\* out); val the value or the error; att the structural parses attempted;
\* cv the conversions invoked; arg the value the adapter's own conversion
\* was handed.
R(st, val, att, cv, arg) == [st |-> st, val |-> val, att |-> att, cv |-> cv, arg |-> arg]
NoRes == R("none", NoVal, 0, 0, NoVal)

SyntaxError == ErrorV("expected value")
TrailingError == ErrorV("trailing characters")
NoVariantError == ErrorV("data did not match any variant of untagged enum Alt")
InvalidTypeError == ErrorV("invalid type")

\* Conversions make_current and into_current invoke on adapter c.
Converts(c) == IF c.v.alt = "Old" THEN 1 ELSE 0

\* Mutant: the adapter is returned as decoded.
make_current_noop(c) == c

\* Mutant: the converted value is stored, the case is left as Old.
make_current_keep_tag(c) ==
    IF c.v.alt = "Old"
    THEN HoldOld(c.ty, Old_into_current(c.v.val, CurOf(c.ty)))
    ELSE c

\* Compatible::make_current
make_current(c) ==
    IF c.v.alt = "Old"
    THEN HoldCurrent(c.ty, Old_into_current(c.v.val, CurOf(c.ty)))
    ELSE c

RECURSIVE deserialize(_, _, _)

\* Mutant: the Current variant is never tried.
Alt_deserialize_old_only(t, j, d) ==
    IF j.j = "bad" THEN R("err", SyntaxError, 0, 0, NoVal)
    ELSE LET o == deserialize(OldOf(t), First(j), d - 1) IN
         IF o.st = "overflow" THEN o
         ELSE IF o.st = "ok" THEN R("ok", HoldOld(t, o.val), o.att, o.cv, NoVal)
         ELSE R("err", NoVariantError, o.att, o.cv, NoVal)

\* Mutant: the variants are declared Current first, Old second.
Alt_deserialize_current_first(t, j, d) ==
    IF j.j = "bad" THEN R("err", SyntaxError, 0, 0, NoVal)
    ELSE LET c == deserialize(CurOf(t), First(j), d - 1) IN
         IF c.st = "overflow" THEN c
         ELSE IF c.st = "ok" THEN R("ok", HoldCurrent(t, c.val), c.att, c.cv, NoVal)
         ELSE LET o == deserialize(OldOf(t), First(j), d - 1) IN
              IF o.st = "overflow" THEN R("overflow", NoVal, o.att + c.att, o.cv + c.cv, NoVal)
              ELSE IF o.st = "ok"
                   THEN R("ok", HoldOld(t, o.val), o.att + c.att, o.cv + c.cv, NoVal)
                   ELSE R("err", NoVariantError, o.att + c.att, o.cv + c.cv, NoVal)

\* #[derive(Deserialize)] #[serde(untagged)] enum Alt: buffer the input, try
\* Old, then Current, else one error.
Alt_deserialize(t, j, d) ==
    IF j.j = "bad" THEN R("err", SyntaxError, 0, 0, NoVal)
    ELSE LET o == deserialize(OldOf(t), First(j), d - 1) IN
         IF o.st = "overflow" THEN o
         ELSE IF o.st = "ok" THEN R("ok", HoldOld(t, o.val), o.att, o.cv, NoVal)
         ELSE LET c == deserialize(CurOf(t), First(j), d - 1) IN
              IF c.st = "overflow" THEN R("overflow", NoVal, o.att + c.att, o.cv + c.cv, NoVal)
              ELSE IF c.st = "ok"
                   THEN R("ok", HoldCurrent(t, c.val), o.att + c.att, o.cv + c.cv, NoVal)
                   ELSE R("err", NoVariantError, o.att + c.att, o.cv + c.cv, NoVal)

\* Mutant: a failed decode is tried once more before the error is returned.
Compatible_deserialize_retry(t, j, d) ==
    LET first == Alt_deserialize(t, j, d)
        again == Alt_deserialize(t, j, d)
        alt == IF first.st = "err"
               THEN R(again.st, again.val, first.att + again.att, again.cv, again.arg)
               ELSE first
    IN
    IF alt.st # "ok" THEN alt
    ELSE R("ok", make_current(alt.val), alt.att, alt.cv + Converts(alt.val),
           IF alt.val.v.alt = "Old" THEN alt.val.v.val ELSE NoVal)

\* Mutant: Ok(Compatible(alt)), make_current left out.
Compatible_deserialize_no_normalize(t, j, d) ==
    LET alt == Alt_deserialize(t, j, d) IN
    IF alt.st # "ok" THEN alt
    ELSE R("ok", alt.val, alt.att, alt.cv, NoVal)

\* impl Deserialize for Compatible
Compatible_deserialize(t, j, d) ==
    LET alt == Alt_deserialize(t, j, d) IN
    IF alt.st # "ok" THEN alt
    ELSE R("ok", make_current(alt.val), alt.att, alt.cv + Converts(alt.val),
           IF alt.val.v.alt = "Old" THEN alt.val.v.val ELSE NoVal)

\* T::deserialize by type: an adapter, the type declared
\* #[serde(from = "Compatible::<i32, MyType>")], or a plain type.
deserialize(t, j, d) ==
    IF d <= 0 THEN R("overflow", NoVal, 0, 0, NoVal)
    ELSE IF IsCompatible(t) THEN Compatible_deserialize(t, j, d)
    ELSE IF t = "derive::MyType"
         THEN LET r == deserialize(DerivedT, j, d - 1) IN
              IF r.st # "ok" THEN r
              ELSE R("ok", From_from(r.val, t), r.att, r.cv, r.arg)
    ELSE LET p == de_plain(t, First(j)) IN
         IF p.ok THEN R("ok", p.val, 1, 0, NoVal)
         ELSE R("err", InvalidTypeError, 1, 0, NoVal)

\* Mutant: the decoded adapter is returned as it is.
deserialize_with_no_unwrap(t, j, d) == deserialize(t, j, d)

\* Compatible::deserialize_with; Compatible::deserialize is the adapter
\* type's Deserialize impl.
deserialize_with(t, j, d) ==
    LET compatible == deserialize(t, j, d) IN
    IF compatible.st # "ok" THEN compatible
    ELSE R("ok", into_current(compatible.val), compatible.att,
           compatible.cv + Converts(compatible.val), compatible.arg)

\* serde_json::from_str::<T>: T::deserialize, then the rest of the text must
\* be blank; the value built (conversions included) is dropped otherwise.
from_str(t, j, d) ==
    LET value == deserialize(t, j, d) IN
    IF value.st = "ok" /\ j.j = "trail"
    THEN R("err", TrailingError, value.att, value.cv, value.arg)
    ELSE value

(* ------------------------------ inputs --------------------------------- *)

Ints == {-1, 0, 1, 12}
Strs == {"1", "x"}

SeqsUpTo(S, n) == UNION {[1..k -> S] : k \in 0..n}

I32s == {I32V(n) : n \in Ints}
Olds == {OldV(n) : n \in Ints}
News == {NewV(s, n) : s \in Strs, n \in Ints}
MyTypes == {MyTypeV(s) : s \in Strs}
Dirs == {DirV(i, n, "/") : i \in {0, 1}, n \in {"root", "a"}}
Leaves == {DirNodeV(d.v.id, d.v.name, d.v.path, <<>>) : d \in Dirs}
DirNodes == {DirNodeV(d.v.id, d.v.name, d.v.path, cs) :
                d \in Dirs, cs \in SeqsUpTo(Leaves, MaxChildren)}
VecDirs == {VecDirV(s) : s \in SeqsUpTo(Dirs, MaxChildren)}

\* The values whose encoding is decoded through adapter type t.
SrcVals(t) ==
    CASE t = SimpleT -> Olds \cup News
      [] t = FieldT -> I32s
      [] t = DirT -> Dirs \cup DirNodes
      [] t = TreeT -> VecDirs \cup DirNodes
      [] t = ChainT -> I32s \cup News
      [] OTHER -> I32s

\* Inputs no value of the types encodes to.
RawInputs ==
    {JBad, JNull, JObj(<<>>), JStr("1"), JStr("x"),
     JTrail(JInt(1)), JTrail(JNull), JTrail(JObj([a |-> JInt(1)])),
     JArr(<<JInt(1)>>), JArr(<<JStr("x"), JInt(0)>>),
     JArr(<<JInt(1), JStr("a"), JStr("/")>>),
     JObj([a |-> JStr("x")]), JObj([b |-> JInt(0)]),
     JObj([a |-> JInt(1), z |-> JInt(1)]), JObj([a |-> JInt(1), b |-> JInt(5)]),
     JObj([id |-> JInt(1), name |-> JStr("a")])}

\* The adapters of type t, holding either case. An inner adapter is one a
\* decode returned.
OldVals(t) ==
    CASE t = SimpleT -> Olds
      [] t = FieldT -> I32s
      [] t = DirT -> Dirs
      [] t = TreeT -> VecDirs
      [] t = ChainT -> {HoldCurrent(FieldT, m) : m \in MyTypes}

CurVals(t) ==
    CASE t = SimpleT -> News
      [] t = FieldT -> MyTypes
      [] t = DirT -> DirNodes
      [] t = TreeT -> DirNodes
      [] t = ChainT -> News

Adapters(t) == {HoldOld(t, o) : o \in OldVals(t)} \cup {HoldCurrent(t, c) : c \in CurVals(t)}

(* ------------------------------ state ---------------------------------- *)

Min(a, b) == IF a < b THEN a ELSE b

Idle ==
    /\ dec = NoRes
    /\ convs = 0
    /\ lastop = "none"
    /\ cur = NoVal
    /\ hook = NoRes
    /\ wire = NoJ
    /\ top = NoRes

\* An input is at hand, and nothing was decoded yet.
Init ==
    /\ ty \in AdapterTypes
    /\ \/ src \in SrcVals(ty) /\ input = serialize(src)
       \/ src = NoVal /\ input \in RawInputs
    /\ pc = "start"
    /\ adapter = NoVal
    /\ Idle

\* Compatible::deserialize on the input (ty is an adapter type).
Deserialize ==
    /\ pc = "start"
    /\ LET r == deserialize(ty, input, StackLimit) IN
         /\ dec' = r
         /\ pc' = CASE r.st = "ok" -> "held" [] r.st = "err" -> "failed" [] OTHER -> "aborted"
         /\ adapter' = IF r.st = "ok" THEN r.val ELSE NoVal
         /\ convs' = Min(convs + r.cv, MaxConvs)
    /\ lastop' = "deserialize"
    /\ UNCHANGED <<ty, src, input, cur, hook, wire, top>>

\* Compatible::deserialize_with on the same input, as a field's hook.
DeserializeWith ==
    /\ hook = NoRes
    /\ input # NoJ
    /\ hook' = deserialize_with(ty, input, StackLimit)
    /\ UNCHANGED <<ty, src, input, pc, dec, adapter, convs, lastop, cur, wire, top>>

\* serde_json::from_str::<Compatible<Old, Current>> on the same input, as
\* the tests call it.
FromStr ==
    /\ top = NoRes
    /\ input # NoJ
    /\ top' = from_str(ty, input, StackLimit)
    /\ UNCHANGED <<ty, src, input, pc, dec, adapter, convs, lastop, cur, hook, wire>>

\* Compatible::make_current on the held adapter.
MakeCurrent ==
    /\ pc = "held"
    /\ adapter' = make_current(adapter)
    /\ convs' = Min(convs + Converts(adapter), MaxConvs)
    /\ lastop' = "make_current"
    /\ UNCHANGED <<ty, src, input, pc, dec, cur, hook, wire, top>>

\* Compatible::serialize of the held adapter.
Serialize ==
    /\ pc = "held"
    /\ CanSerialize(ty)
    /\ wire' = Compatible_serialize(adapter)
    /\ lastop' = "serialize"
    /\ UNCHANGED <<ty, src, input, pc, dec, adapter, convs, cur, hook, top>>

\* Compatible::into_current, which consumes the adapter.
IntoCurrent ==
    /\ pc = "held"
    /\ cur' = into_current(adapter)
    /\ convs' = Min(convs + Converts(adapter), MaxConvs)
    /\ adapter' = NoVal
    /\ pc' = "unwrapped"
    /\ lastop' = "into_current"
    /\ UNCHANGED <<ty, src, input, dec, hook, wire, top>>

Next == Deserialize \/ DeserializeWith \/ FromStr \/ MakeCurrent \/ Serialize \/ IntoCurrent

Spec == Init /\ [][Next]_vars

(* An adapter in either state, as Compatible::deserialize holds it between *)
(* Alt::deserialize and make_current.                                      *)
InitNorm ==
    /\ ty \in AdapterTypes
    /\ adapter \in Adapters(ty)
    /\ src = NoVal
    /\ input = NoJ
    /\ pc = "held"
    /\ Idle

NextNorm == MakeCurrent \/ Serialize \/ IntoCurrent

SpecNorm == InitNorm /\ [][NextNorm]_vars

(* Decoding a value of type ty directly: an adapter, or the type of        *)
(* tests/derive.rs that decodes through its own adapter.                   *)
InitDerive ==
    /\ ty \in AdapterTypes \cup {"derive::MyType"}
    /\ \/ src \in SrcVals(ty) /\ input = serialize(src)
       \/ src = NoVal /\ input \in RawInputs
    /\ pc = "start"
    /\ adapter = NoVal
    /\ Idle

\* T::deserialize on the input.
DeserializeType ==
    /\ pc = "start"
    /\ LET r == deserialize(ty, input, StackLimit) IN
         /\ dec' = r
         /\ pc' = CASE r.st = "ok" -> "value" [] r.st = "err" -> "failed" [] OTHER -> "aborted"
         /\ cur' = IF r.st = "ok" THEN r.val ELSE NoVal
         /\ convs' = Min(convs + r.cv, MaxConvs)
    /\ lastop' = "deserialize"
    /\ UNCHANGED <<ty, src, input, adapter, hook, wire, top>>

NextDerive == DeserializeType

SpecDerive == InitDerive /\ [][NextDerive]_vars

(* ------------------------------ claims --------------------------------- *)

\* The shapes a decode of type t may try, each at most once.
ShapeCount(t) == IF t = ChainT THEN 3 ELSE 2

ParsesAs(t, j) == deserialize(t, j, StackLimit).st = "ok"

\* C1: every successful Compatible::deserialize returns an adapter holding
\* Alt::Current, and after any sequence of make_current and serialize the
\* adapter still holds Alt::Current.
C1_HoldsCurrent ==
    /\ dec.st = "ok" => dec.val.v.alt = "Current"
    /\ pc = "held" => adapter.v.alt = "Current"

C1_Witness ==
    /\ pc = "held"
    /\ dec.arg.ty = "Old"
    /\ lastop = "make_current"
    /\ wire # NoJ
    /\ adapter.v.alt = "Current"

\* C2: the encoding of an Old value o decodes, and into_current then yields
\* Current::from(o), the conversion having run exactly once.
C2_OldUpgrade ==
    (src.ty = OldOf(ty) /\ pc # "start") =>
        /\ dec.st = "ok"
        /\ dec.arg = src
        /\ pc = "unwrapped" => (cur = From_from(src, CurOf(ty)) /\ convs = 1)

C2_Witness ==
    /\ pc = "unwrapped"
    /\ src = OldV(12)
    /\ cur = NewV("12", 0)

\* C3 as stated: for any Current value c and any Old type, encoding c,
\* decoding through the adapter and into_current yields c.
C3_PassthroughAnyOld ==
    (src.ty = CurOf(ty) /\ pc = "unwrapped") => cur = src

\* C3 amended: for any Current value c whose encoding does not parse as
\* Old, the encoding of c decodes and into_current yields c, no conversion
\* having run.
C3_Passthrough ==
    (src.ty = CurOf(ty) /\ ~ParsesAs(OldOf(ty), input) /\ pc # "start") =>
        /\ dec.st = "ok"
        /\ dec.cv = 0
        /\ pc = "unwrapped" => (cur = src /\ convs = 0)

C3_Witness ==
    /\ pc = "unwrapped"
    /\ ty = SimpleT
    /\ src = NewV("x", 12)
    /\ ~ParsesAs("Old", input)
    /\ cur = src

\* C4: Old is tried first; when the input parses as Old, Current is never
\* tried and the adapter holds the conversion of the Old-parsed value, also
\* when the input parses as Current too.
C4_CandidateOrder ==
    (pc # "start" /\ ParsesAs(OldOf(ty), input)) =>
        LET o == deserialize(OldOf(ty), input, StackLimit) IN
        /\ dec.st = "ok"
        /\ dec.arg = o.val
        /\ dec.att = o.att
        /\ dec.val = HoldCurrent(ty, From_from(o.val, CurOf(ty)))
        /\ pc = "unwrapped" => cur = From_from(o.val, CurOf(ty))

C4_Witness ==
    /\ pc = "unwrapped"
    /\ ty = DirT
    /\ src.ty = "DirNode"
    /\ Len(src.v.children) > 0
    /\ ParsesAs("Dir", input) /\ ParsesAs("DirNode", input)
    /\ cur = DirNodeV(src.v.id, src.v.name, src.v.path, <<>>)

\* C5: serializing a decoded adapter emits exactly the encoding of the
\* Current value into_current returns, and never the encoding of the Old
\* value the input was read as.
C5_SelfHealing ==
    wire # NoJ =>
        /\ pc = "held" => wire = serialize(into_current(adapter))
        /\ pc = "unwrapped" => wire = serialize(cur)
        /\ dec.arg.ty # "none" => wire # serialize(dec.arg)

C5_Witness ==
    /\ wire # NoJ
    /\ ty = TreeT
    /\ dec.arg.ty = "Vec<Dir>"
    /\ Len(dec.arg.v) = 2
    /\ wire = serialize(From_VecDir_for_DirNode(dec.arg))

\* C6: decode fails exactly when the input parses as neither Old nor
\* Current; then no adapter exists, no conversion ran, the error is the one
\* Alt::deserialize raised, and no shape was tried twice. The same holds of
\* the hook's failure.
C6_DecodeError ==
    /\ pc # "start" =>
        /\ dec.st \in {"ok", "err"}
        /\ dec.st = "err" <=> (~ParsesAs(OldOf(ty), input) /\ ~ParsesAs(CurOf(ty), input))
        /\ dec.st = "err" =>
            /\ pc = "failed"
            /\ adapter = NoVal
            /\ convs = 0
            /\ dec.val = Alt_deserialize(ty, input, StackLimit).val
            /\ dec.att <= ShapeCount(ty)
    /\ hook.st = "err" =>
        /\ hook.val = Alt_deserialize(ty, input, StackLimit).val
        /\ hook.cv = 0
        /\ hook.att <= ShapeCount(ty)

C6_Witness ==
    /\ pc = "failed"
    /\ hook.st = "err"
    /\ input = JObj([a |-> JStr("x")])
    /\ dec.val = NoVariantError
    /\ dec.att = ShapeCount(ty)

\* C7: every decode returns a value or an error after trying each shape at
\* most once, also for a type that decodes through its own adapter with the
\* derived From.
C7_DecodeTerminates ==
    /\ pc # "aborted"
    /\ pc # "start" => (dec.st \in {"ok", "err"} /\ dec.att <= ShapeCount(ty))

\* C8: deserialize_with returns Ok(v) exactly when deserialize returns an
\* adapter whose into_current is v, v being a Current value and no adapter,
\* and fails with the same error exactly when deserialize fails.
C8_HookEquivalence ==
    hook.st # "none" =>
        /\ hook.st \in {"ok", "err"}
        /\ hook.st = "ok" => hook.val.ty = CurOf(ty)
        /\ pc = "held" => (hook.st = "ok" /\ hook.val = into_current(adapter))
        /\ pc = "unwrapped" => (hook.st = "ok" /\ hook.val = cur)
        /\ pc = "failed" => (hook.st = "err" /\ hook.val = dec.val)

C8_Witness ==
    /\ ty = FieldT
    /\ input = JInt(1)
    /\ pc = "unwrapped"
    /\ hook.st = "ok"
    /\ hook.val = MyTypeV("1")
    /\ cur = MyTypeV("1")

\* C9: make_current after make_current changes nothing, its result is a
\* fixed point, and on an adapter holding Current it returns the adapter
\* unchanged without invoking the conversion.
C9_Idempotent ==
    [][lastop' = "make_current" =>
        /\ make_current(adapter') = adapter'
        /\ (lastop = "make_current" \/ adapter.v.alt = "Current") =>
               (adapter' = adapter /\ convs' = convs)]_vars

C9_Witness ==
    /\ pc = "held"
    /\ lastop = "make_current"
    /\ convs = 1
    /\ adapter = HoldCurrent(SimpleT, NewV("-1", 0))

\* C10: the chain Compatible<Compatible<V1, V2>, V3> tries V1, V2, V3 in
\* that order; a V1 input is converted to V2 by the inner adapter and then
\* to V3 by the outer conversion, a V2 input by the outer conversion alone,
\* a V3 input is kept; the outer adapter holds V3 and the inner adapter
\* handed to the outer conversion holds V2.
C10_Chain ==
    (ty = ChainT /\ pc # "start") =>
        LET v1 == de_plain("i32", First(input))
            v2 == de_plain("MyType", First(input))
            v3 == de_plain("New", First(input))
        IN
        /\ v1.ok =>
            /\ dec.st = "ok"
            /\ dec.arg = HoldCurrent(FieldT, From_i32_for_MyType(v1.val))
            /\ dec.val = HoldCurrent(ChainT, From_Compatible_for_New(dec.arg))
            /\ dec.att = 1
            /\ dec.cv = 2
        /\ (~v1.ok /\ v2.ok) =>
            /\ dec.st = "ok"
            /\ dec.arg = HoldCurrent(FieldT, v2.val)
            /\ dec.val = HoldCurrent(ChainT, From_Compatible_for_New(dec.arg))
            /\ dec.att = 2
            /\ dec.cv = 1
        /\ (~v1.ok /\ ~v2.ok /\ v3.ok) =>
            /\ dec.st = "ok"
            /\ dec.arg = NoVal
            /\ dec.val = HoldCurrent(ChainT, v3.val)
            /\ dec.att = 3
            /\ dec.cv = 0
        /\ dec.st = "ok" =>
            /\ dec.val.v.alt = "Current"
            /\ dec.val.v.val.ty = "New"
            /\ dec.arg.ty # "none" => dec.arg.v.alt = "Current"

C10_Witness ==
    /\ ty = ChainT
    /\ pc = "held"
    /\ input = JInt(12)
    /\ dec.arg = HoldCurrent(FieldT, MyTypeV("12"))
    /\ adapter = HoldCurrent(ChainT, NewV("12", 0))

====
